---- MODULE Spec2Model ----
(***************************************************************************)
(* minigrep (src/src/lib.rs): Config::build, run, search and               *)
(* search_case_insensitive.                                                *)
(*                                                                         *)
(* A string is a sequence of characters.  A character is written by name:  *)
(*   "a" "A"    the ASCII letters a and A                                  *)
(*   "LF" "CR"  line feed and carriage return                              *)
(*   "SIGMA"    U+03A3 GREEK CAPITAL LETTER SIGMA                          *)
(*   "sigma"    U+03C3 GREEK SMALL LETTER SIGMA                            *)
(*   "fsigma"   U+03C2 GREEK SMALL LETTER FINAL SIGMA                      *)
(*   "IDOT"     U+0130 LATIN CAPITAL LETTER I WITH DOT ABOVE               *)
(*   "i"        the ASCII letter i                                         *)
(*   "dot"      U+0307 COMBINING DOT ABOVE                                 *)
(* The length of a string is its number of characters.                     *)
(*                                                                         *)
(* Writes to standard output are taken to succeed (println! panics when    *)
(* one fails); allocation is taken to succeed.                             *)
(***************************************************************************)
EXTENDS Integers, Sequences, FiniteSets, TLC

VARIABLES
    args,       \* the argument list handed to Config::build
    env,        \* the IGNORE_CASE entry of the process environment
    fs,         \* the file at the configured path: its status and its data
    pc,         \* position of the program / of the library call
    built,      \* the value returned by Config::build
    query,      \* the query argument of the search call
    contents,   \* run's local `contents` / the contents argument of the call
    results,    \* run's local `results` / the vector returned by the call
    searched,   \* which search function has been called, "none" if none
    printed,    \* number of elements of results run has printed
    stdout,     \* the characters written to standard output
    fileReads,  \* number of file accesses attempted
    ret         \* the value returned by run

vars == <<args, env, fs, pc, built, query, contents, results, searched,
          printed, stdout, fileReads, ret>>

----------------------------------------------------------------------------
(* Bounds *)

MaxLen == 4         \* longest contents of a library call
MaxQueryLen == 2    \* longest query of a library call
FileMaxLen == 3     \* longest file data of a program run
ArgQueryLen == 1    \* longest query argument of a program run

----------------------------------------------------------------------------
(* Input alphabets *)

ContentChars == {"a", "A", "LF", "CR", "SIGMA", "IDOT"}
QueryChars == {"A", "SIGMA", "i", "dot"}

SeqsUpTo(S, n) == UNION {[1..k -> S] : k \in 0..n}

ProgName == <<"a">>
PathNames == {<<"A">>, <<"i">>}
ExtraArg == <<"dot">>

EnvValues ==
    { [present |-> FALSE],
      [present |-> TRUE, unicode |-> TRUE, value |-> <<>>],
      [present |-> TRUE, unicode |-> TRUE, value |-> <<"a">>],
      [present |-> TRUE, unicode |-> FALSE] }

FileStatuses == {"Ok", "NotFound", "PermissionDenied", "InvalidData"}

----------------------------------------------------------------------------
(* str::lines, str::contains, str::to_lowercase as lib.rs uses them *)

Range(s) == {s[k] : k \in 1..Len(s)}

RECURSIVE Flatten(_)
Flatten(ss) == IF ss = <<>> THEN <<>> ELSE Head(ss) \o Flatten(Tail(ss))

\* split_inclusive('\n'): every piece but possibly the last ends in LF
RECURSIVE split_inclusive(_, _, _)
split_inclusive(s, k, cur) ==
    IF k > Len(s) THEN (IF cur = <<>> THEN <<>> ELSE <<cur>>)
    ELSE IF s[k] = "LF"
         THEN <<Append(cur, "LF")>> \o split_inclusive(s, k + 1, <<>>)
         ELSE split_inclusive(s, k + 1, Append(cur, s[k]))

\* a piece without its "\n", and then without the "\r" before that "\n"
LinesMap(piece) ==
    IF piece /= <<>> /\ piece[Len(piece)] = "LF"
    THEN LET l == SubSeq(piece, 1, Len(piece) - 1)
         IN IF l /= <<>> /\ l[Len(l)] = "CR"
            THEN SubSeq(l, 1, Len(l) - 1)
            ELSE l
    ELSE piece

lines(s) ==
    LET pieces == split_inclusive(s, 1, <<>>)
    IN [k \in 1..Len(pieces) |-> LinesMap(pieces[k])]

\* mutant of contains: an empty needle is found nowhere
contains_nonempty(haystack, needle) ==
    /\ needle /= <<>>
    /\ \E k \in 0..(Len(haystack) - Len(needle)) :
           SubSeq(haystack, k + 1, k + Len(needle)) = needle

contains(haystack, needle) ==
    \E k \in 0..(Len(haystack) - Len(needle)) :
        SubSeq(haystack, k + 1, k + Len(needle)) = needle

Cased(c) == c \in {"a", "A", "SIGMA", "sigma", "fsigma", "IDOT", "i"}
Case_Ignorable(c) == c \in {"dot"}

\* char::to_lowercase: the context-free mapping, one or two characters
to_lower(c) ==
    CASE c = "A" -> <<"a">>
      [] c = "SIGMA" -> <<"sigma">>
      [] c = "IDOT" -> <<"i", "dot">>
      [] OTHER -> <<c>>

\* skip the case-ignorable characters of s[k], s[k+d], ...; is the next
\* character a cased one
RECURSIVE case_ignorable_then_cased(_, _, _)
case_ignorable_then_cased(s, k, d) ==
    IF k < 1 \/ k > Len(s) THEN FALSE
    ELSE IF Case_Ignorable(s[k]) THEN case_ignorable_then_cased(s, k + d, d)
    ELSE Cased(s[k])

\* Final_Sigma: capital sigma at the end of a word becomes final sigma
map_uppercase_sigma(from, k) ==
    LET is_word_final == /\ case_ignorable_then_cased(from, k - 1, -1)
                         /\ ~case_ignorable_then_cased(from, k + 1, 1)
    IN IF is_word_final THEN "fsigma" ELSE "sigma"

to_lowercase(s) ==
    Flatten([k \in 1..Len(s) |->
                IF s[k] = "SIGMA" THEN <<map_uppercase_sigma(s, k)>>
                                  ELSE to_lower(s[k])])

----------------------------------------------------------------------------
(* search and search_case_insensitive *)

\* mutants of search: the comparison made on lowercased lines; the arguments
\* of contains exchanged; the result built back to front
search_lowercased(q, c) ==
    SelectSeq(lines(c), LAMBDA line : contains(to_lowercase(line), q))

search_exchanged(q, c) == SelectSeq(lines(c), LAMBDA line : contains(q, line))

RECURSIVE Reverse(_)
Reverse(s) == IF s = <<>> THEN <<>> ELSE Append(Reverse(Tail(s)), Head(s))

search_reversed(q, c) ==
    Reverse(SelectSeq(lines(c), LAMBDA line : contains(line, q)))

search(q, c) == SelectSeq(lines(c), LAMBDA line : contains(line, q))

\* mutant of the loop: the lowercased copy is pushed
RECURSIVE search_ci_loop_copy(_, _, _, _)
search_ci_loop_copy(q, ls, k, res) ==
    IF k > Len(ls) THEN res
    ELSE search_ci_loop_copy(q, ls, k + 1,
            IF contains(to_lowercase(ls[k]), q)
            THEN Append(res, to_lowercase(ls[k]))
            ELSE res)

RECURSIVE search_ci_loop(_, _, _, _)
search_ci_loop(q, ls, k, res) ==
    IF k > Len(ls) THEN res
    ELSE search_ci_loop(q, ls, k + 1,
            IF contains(to_lowercase(ls[k]), q) THEN Append(res, ls[k])
                                                ELSE res)

search_case_insensitive(q, c) ==
    search_ci_loop(to_lowercase(q), lines(c), 1, <<>>)

----------------------------------------------------------------------------
(* Config::build *)

\* Iterator::next on the argument list, k arguments already taken
next(a, k) == IF k < Len(a) THEN [some |-> TRUE, arg |-> a[k + 1]]
                            ELSE [some |-> FALSE]

\* env::var(..).is_ok(): Ok only for a variable that is present and Unicode
env_var_is_ok(e) == e.present /\ e.unicode

\* mutant of build: the program name is not skipped
build_unskipped(a, e) ==
    LET q == next(a, 0)
        f == next(a, 1)
    IN IF ~q.some THEN [tag |-> "Err", msg |-> "Didn't get a query string"]
       ELSE IF ~f.some THEN [tag |-> "Err", msg |-> "Didn't get a file path"]
       ELSE [tag |-> "Ok",
             config |-> [query |-> q.arg,
                         file_path |-> f.arg,
                         ignore_case |-> env_var_is_ok(e)]]

build(a, e) ==
    LET q == next(a, 1)
        f == next(a, 2)
    IN IF ~q.some THEN [tag |-> "Err", msg |-> "Didn't get a query string"]
       ELSE IF ~f.some THEN [tag |-> "Err", msg |-> "Didn't get a file path"]
       ELSE [tag |-> "Ok",
             config |-> [query |-> q.arg,
                         file_path |-> f.arg,
                         ignore_case |-> env_var_is_ok(e)]]

----------------------------------------------------------------------------
(* The program: Config::build, then run on the Config it returned *)

ArgLists ==
    {<<>>, <<ProgName>>}
    \cup {<<ProgName, q>> : q \in SeqsUpTo(QueryChars, ArgQueryLen)}
    \cup {<<ProgName, q, p>> : q \in SeqsUpTo(QueryChars, ArgQueryLen),
                               p \in PathNames}
    \cup {<<ProgName, q, p, ExtraArg>> :
              q \in SeqsUpTo(QueryChars, ArgQueryLen), p \in PathNames}

Idle ==
    /\ built = [tag |-> "None"]
    /\ query = <<>>
    /\ contents = <<>>
    /\ results = <<>>
    /\ searched = "none"
    /\ printed = 0
    /\ stdout = <<>>
    /\ fileReads = 0
    /\ ret = [tag |-> "None"]

Init ==
    /\ args \in ArgLists
    /\ env \in EnvValues
    /\ fs \in {[status |-> "Ok", data |-> d] :
                  d \in SeqsUpTo(ContentChars, FileMaxLen)}
              \cup {[status |-> s, data |-> <<>>] :
                       s \in FileStatuses \ {"Ok"}}
    /\ pc = "start"
    /\ Idle

Build ==
    /\ pc = "start"
    /\ built' = build(args, env)
    /\ pc' = IF built'.tag = "Ok" THEN "built" ELSE "build_err"
    /\ UNCHANGED <<args, env, fs, query, contents, results, searched,
                   printed, stdout, fileReads, ret>>

\* fs::read_to_string(config.file_path)? on a file that is read
RunReadOk ==
    /\ pc = "built"
    /\ fs.status = "Ok"
    /\ contents' = fs.data
    /\ fileReads' = fileReads + 1
    /\ pc' = "read"
    /\ UNCHANGED <<args, env, fs, built, query, results, searched,
                   printed, stdout, ret>>

\* mutant of the failed read: the error is dropped for empty contents
RunReadErr_defaulted ==
    /\ pc = "built"
    /\ fs.status /= "Ok"
    /\ fileReads' = fileReads + 1
    /\ contents' = <<>>
    /\ pc' = "read"
    /\ UNCHANGED <<args, env, fs, built, query, results, searched,
                   printed, stdout, ret>>

\* fs::read_to_string(config.file_path)? on a file that cannot be read
RunReadErr ==
    /\ pc = "built"
    /\ fs.status /= "Ok"
    /\ fileReads' = fileReads + 1
    /\ ret' = [tag |-> "Err", cause |-> fs.status]
    /\ pc' = "done"
    /\ UNCHANGED <<args, env, fs, built, query, contents, results,
                   searched, printed, stdout>>

\* mutant of the dispatch: the branches exchanged
RunSearch_exchanged ==
    /\ pc = "read"
    /\ query' = built.config.query
    /\ IF built.config.ignore_case
       THEN /\ results' = search(built.config.query, contents)
            /\ searched' = "search"
       ELSE /\ results' = search_case_insensitive(built.config.query, contents)
            /\ searched' = "search_case_insensitive"
    /\ pc' = "print"
    /\ UNCHANGED <<args, env, fs, built, contents, printed, stdout,
                   fileReads, ret>>

RunSearch ==
    /\ pc = "read"
    /\ query' = built.config.query
    /\ IF built.config.ignore_case
       THEN /\ results' = search_case_insensitive(built.config.query, contents)
            /\ searched' = "search_case_insensitive"
       ELSE /\ results' = search(built.config.query, contents)
            /\ searched' = "search"
    /\ pc' = "print"
    /\ UNCHANGED <<args, env, fs, built, contents, printed, stdout,
                   fileReads, ret>>

\* one iteration of `for line in results { println!("{line}"); }`
RunPrint ==
    /\ pc = "print"
    /\ printed < Len(results)
    /\ stdout' = stdout \o results[printed + 1] \o <<"LF">>
    /\ printed' = printed + 1
    /\ UNCHANGED <<args, env, fs, pc, built, query, contents, results,
                   searched, fileReads, ret>>

RunReturn ==
    /\ pc = "print"
    /\ printed = Len(results)
    /\ ret' = [tag |-> "Ok"]
    /\ pc' = "done"
    /\ UNCHANGED <<args, env, fs, built, query, contents, results,
                   searched, printed, stdout, fileReads>>

Next ==
    \/ Build
    \/ RunReadOk
    \/ RunReadErr
    \/ RunSearch
    \/ RunPrint
    \/ RunReturn

Spec == Init /\ [][Next]_vars

----------------------------------------------------------------------------
(* The library: search and search_case_insensitive called directly *)

InitSearch ==
    /\ args = <<>>
    /\ env = [present |-> FALSE]
    /\ fs = [status |-> "NotFound", data |-> <<>>]
    /\ pc = "call"
    /\ built = [tag |-> "None"]
    /\ query \in SeqsUpTo(QueryChars, MaxQueryLen)
    /\ contents \in SeqsUpTo(ContentChars, MaxLen)
    /\ results = <<>>
    /\ searched = "none"
    /\ printed = 0
    /\ stdout = <<>>
    /\ fileReads = 0
    /\ ret = [tag |-> "None"]

CallSearch ==
    /\ pc = "call"
    /\ results' = search(query, contents)
    /\ searched' = "search"
    /\ pc' = "returned"
    /\ UNCHANGED <<args, env, fs, built, query, contents, printed, stdout,
                   fileReads, ret>>

CallSearchCaseInsensitive ==
    /\ pc = "call"
    /\ results' = search_case_insensitive(query, contents)
    /\ searched' = "search_case_insensitive"
    /\ pc' = "returned"
    /\ UNCHANGED <<args, env, fs, built, query, contents, printed, stdout,
                   fileReads, ret>>

NextSearch ==
    \/ CallSearch
    \/ CallSearchCaseInsensitive

SpecSearch == InitSearch /\ [][NextSearch]_vars

----------------------------------------------------------------------------
(* Vocabulary of the properties *)

\* needle occurs in hay as a contiguous run of equal characters
Substring(needle, hay) ==
    \E b \in 1..(Len(hay) + 1) : \E e \in (b - 1)..Len(hay) :
        SubSeq(hay, b, e) = needle

RECURSIVE IsSubsequence(_, _)
IsSubsequence(a, b) ==
    IF a = <<>> THEN TRUE
    ELSE IF b = <<>> THEN FALSE
    ELSE IF Head(a) = Head(b) THEN IsSubsequence(Tail(a), Tail(b))
    ELSE IsSubsequence(a, Tail(b))

Count(s, v) == Cardinality({k \in 1..Len(s) : s[k] = v})

Returned(f) == pc = "returned" /\ searched = f

\* what println! writes for the lines ls
Printout(ls) == Flatten([k \in 1..Len(ls) |-> Append(ls[k], "LF")])

\* the result run's dispatch owes for the Config and the file
Expected ==
    IF built.config.ignore_case
    THEN search_case_insensitive(built.config.query, fs.data)
    ELSE search(built.config.query, fs.data)

----------------------------------------------------------------------------
(* Properties of search and search_case_insensitive, under SpecSearch *)

\* C1: search returns exactly the lines of contents that contain query as a
\* contiguous, case-exact substring: every returned line contains query and
\* every line of contents that is not returned does not contain it.
C1_SearchExact ==
    Returned("search") =>
        LET ls == lines(contents)
        IN /\ \A k \in 1..Len(results) : Substring(query, results[k])
           /\ \A k \in 1..Len(ls) :
                 ls[k] \notin Range(results) => ~Substring(query, ls[k])

\* "A" is sought in the lines "a" and "A": the second alone is returned
C1_Witness ==
    /\ Returned("search")
    /\ query = <<"A">>
    /\ lines(contents) = <<<<"a">>, <<"A">>>>
    /\ results = <<<<"A">>>>

\* C2: search_case_insensitive returns a line of contents if and only if the
\* lowercased line contains the lowercased query, and each returned element
\* is the original line, with its original casing.
C2_CaseInsensitiveExact ==
    Returned("search_case_insensitive") =>
        LET ls == lines(contents)
            lq == to_lowercase(query)
        IN /\ \A k \in 1..Len(ls) :
                 ls[k] \in Range(results)
                     <=> Substring(lq, to_lowercase(ls[k]))
           /\ Range(results) \subseteq Range(ls)

\* the query "A" finds the lines "a" and "A", returned as they are, and
\* not a third line
C2_Witness ==
    /\ Returned("search_case_insensitive")
    /\ query = <<"A">>
    /\ results = <<<<"a">>, <<"A">>>>
    /\ Len(lines(contents)) = 3

\* C3: for both functions the result is a subsequence of the lines of
\* contents: file order is kept, a matching line that occurs several times
\* is returned once per occurrence, and every element is a line of contents.
C3_ResultIsSubsequence ==
    pc = "returned" =>
        LET ls == lines(contents)
        IN /\ IsSubsequence(results, ls)
           /\ \A v \in Range(results) : Count(results, v) = Count(ls, v)

\* two equal matching lines around a line that does not match
C3_Witness ==
    /\ pc = "returned"
    /\ Len(lines(contents)) = 3
    /\ Len(results) = 2
    /\ results[1] = results[2]
    /\ lines(contents)[2] /= results[1]

\* C8: for both functions an empty query returns every line of contents and
\* empty contents yields an empty result for every query.
C8_EmptyQueryEmptyContents ==
    pc = "returned" =>
        /\ query = <<>> => results = lines(contents)
        /\ contents = <<>> => results = <<>>

\* the empty query on contents of two different lines, case-insensitively
C8_Witness ==
    /\ Returned("search_case_insensitive")
    /\ query = <<>>
    /\ Len(results) = 2
    /\ results[1] /= results[2]

\* C9 as stated: for both functions, a query longer than every line of
\* contents gives an empty result.
C9_LongerQueryIsEmpty ==
    (/\ pc = "returned"
     /\ \A k \in 1..Len(lines(contents)) :
           Len(query) > Len(lines(contents)[k]))
        => results = <<>>

\* C9 as amended: search gives an empty result when the query is longer than
\* every line; search_case_insensitive gives an empty result when the
\* lowercased query is longer than every lowercased line.
C9_LongerQueryIsEmptyAmended ==
    LET ls == lines(contents)
        lq == to_lowercase(query)
    IN /\ (/\ Returned("search")
           /\ \A k \in 1..Len(ls) : Len(query) > Len(ls[k]))
              => results = <<>>
       /\ (/\ Returned("search_case_insensitive")
           /\ \A k \in 1..Len(ls) : Len(lq) > Len(to_lowercase(ls[k])))
              => results = <<>>

\* a case-insensitive search of two lines for a query longer than both of
\* them lowercased, one of the lines being the query's first character
C9_Witness ==
    /\ Returned("search_case_insensitive")
    /\ Len(query) = 2
    /\ Len(lines(contents)) = 2
    /\ \A k \in 1..2 : Len(to_lowercase(lines(contents)[k])) < 2
    /\ \E k \in 1..2 : lines(contents)[k] = <<query[1]>>
    /\ results = <<>>

\* C10 as stated: the case-sensitive result is a subsequence of the
\* case-insensitive result for the same query and contents.
C10_SensitiveWithinInsensitive ==
    /\ Returned("search")
          => IsSubsequence(results, search_case_insensitive(query, contents))
    /\ Returned("search_case_insensitive")
          => IsSubsequence(search(query, contents), results)

----------------------------------------------------------------------------
(* Properties of Config::build and run, under Spec *)

\* C4: Config::build returns an error when fewer than two arguments follow
\* the program name, and then no file is accessed; otherwise it returns a
\* Config whose query is the first of them and whose file_path the second.
C4_BuildArguments ==
    pc /= "start" =>
        IF Len(args) < 3
        THEN /\ built.tag = "Err"
             /\ built.msg = IF Len(args) < 2 THEN "Didn't get a query string"
                                             ELSE "Didn't get a file path"
             /\ pc = "build_err"
             /\ fileReads = 0
        ELSE /\ built.tag = "Ok"
             /\ built.config.query = args[2]
             /\ built.config.file_path = args[3]

\* the query is given and the file path is missing
C4_Witness ==
    /\ pc = "build_err"
    /\ Len(args) = 2
    /\ built.tag = "Err"

\* C5 as stated: when Config::build succeeds, ignore_case is true if and
\* only if IGNORE_CASE is present in the environment, whatever its value.
C5_IgnoreCaseIffPresent ==
    built.tag = "Ok" => (built.config.ignore_case <=> env.present)

\* C6: when the file cannot be read, run returns an error carrying the
\* cause, performs no search and prints nothing; when the file is read, run
\* returns Ok(()).
C6_UnreadableFile ==
    /\ fs.status /= "Ok" => searched = "none" /\ stdout = <<>>
    /\ (pc = "done" /\ fs.status /= "Ok")
          => ret = [tag |-> "Err", cause |-> fs.status]
    /\ (pc = "done" /\ fs.status = "Ok") => ret = [tag |-> "Ok"]

\* run has returned on a file it was denied
C6_Witness ==
    /\ pc = "done"
    /\ fs.status = "PermissionDenied"
    /\ fileReads = 1
    /\ ret.tag = "Err"

\* C7: on a readable file run prints exactly the lines of
\* search_case_insensitive when ignore_case is true and of search when it is
\* false, one printed line per result element, in result order, and nothing
\* else.
C7_PrintsTheResult ==
    /\ pc \in {"print", "done"} /\ fs.status = "Ok"
          => /\ results = Expected
             /\ stdout = Printout(SubSeq(Expected, 1, printed))
             /\ Count(stdout, "LF") = printed
    /\ (pc = "done" /\ fs.status = "Ok") => printed = Len(Expected)

\* run has returned after printing two lines that only the
\* case-insensitive search finds
C7_Witness ==
    /\ pc = "done"
    /\ ret.tag = "Ok"
    /\ built.config.ignore_case
    /\ printed = 2
    /\ search(built.config.query, fs.data) = <<>>

====
